---- MODULE Spec2Model ----
(***************************************************************************)
(* A model of feedflamer (src/feedflamer/feedflamer.py): the Twitter       *)
(* critique podcast generator.  Strings are sequences of one-character     *)
(* strings, so that split, strip and the two regular expressions of        *)
(* text_to_speech_multispeaker are computed character by character.        *)
(***************************************************************************)
EXTENDS Integers, Sequences, FiniteSets, TLC

VARIABLES
  env,     \* the environment: the two credentials, set or not
  main,    \* main(): where it stands and its locals
  orch,    \* generate_critique_podcast: where it stands and its locals
  gen,     \* what generate_podcast_script computed: the analysis, the prompt
  log,     \* the external interactions so far, in order
  files,   \* the working directory: file name -> content
  render   \* the render calls: where each stands and its locals

renderVars == <<files, render>>
pipeVars == <<env, main, orch, gen, log>>
vars == <<env, main, orch, gen, log, files, render>>

(***************************************************************************)
(* Bounds of the model.                                                    *)
(***************************************************************************)
\* the longest transcript, in lines, handed to a single render call
MaxLines == 3

(***************************************************************************)
(* Characters and strings.                                                 *)
(***************************************************************************)
NL == "\n"

\* the class [A-Z] of the two patterns (lines 271 and 297)
Upper == {"A", "B", "C", "D", "E", "F", "G", "H", "I", "J", "K", "L", "M",
          "N", "O", "P", "Q", "R", "S", "T", "U", "V", "W", "X", "Y", "Z"}

\* what str.strip() removes and what \s matches
Whitespace == {" ", "\t", "\n", "\r"}

\* s[a..b], empty when a > b
Slice(s, a, b) == IF a > b THEN <<>> ELSE SubSeq(s, a, b)

\* script.split('\n'): the pieces between line feeds, never an empty list
RECURSIVE SplitFrom(_, _, _)
SplitFrom(s, i, cur) ==
  IF i > Len(s) THEN <<cur>>
  ELSE IF s[i] = NL THEN <<cur>> \o SplitFrom(s, i + 1, <<>>)
  ELSE SplitFrom(s, i + 1, Append(cur, s[i]))

Split(s) == SplitFrom(s, 1, <<>>)

\* the number of leading characters of s, from position i on, that lie in cls
RECURSIVE RunLen(_, _, _)
RunLen(s, i, cls) ==
  IF i > Len(s) \/ s[i] \notin cls THEN 0 ELSE 1 + RunLen(s, i + 1, cls)

\* the number of trailing whitespace characters of s[1..j]
RECURSIVE TrailLen(_, _)
TrailLen(s, j) ==
  IF j < 1 \/ s[j] \notin Whitespace THEN 0 ELSE 1 + TrailLen(s, j - 1)

\* line.strip()
Strip(s) ==
  LET a == RunLen(s, 1, Whitespace)
  IN IF a = Len(s) THEN <<>>
     ELSE Slice(s, a + 1, Len(s) - TrailLen(s, Len(s)))

NoMatch == [matched |-> FALSE, speaker |-> <<>>, text |-> <<>>]

\* re.match(r'^([A-Z]+):\s*(.+)$', line): group 1 is the longest run of
\* capitals at the start, which a colon must follow; \s* is greedy and gives
\* one character back when nothing else is left for (.+); '.' is any
\* character but a line feed.
SpeakerMatch(line) ==
  LET u    == RunLen(line, 1, Upper)
      rest == Slice(line, u + 2, Len(line))
      w    == RunLen(rest, 1, Whitespace)
      k    == IF w = Len(rest) THEN w - 1 ELSE w
      text == Slice(rest, k + 1, Len(rest))
  IN IF u = 0 \/ u + 1 > Len(line) \/ line[u + 1] # ":" THEN NoMatch
     ELSE IF Len(rest) = 0 THEN NoMatch
     ELSE IF \E i \in 1..Len(text) : text[i] = NL THEN NoMatch
     ELSE [matched |-> TRUE, speaker |-> Slice(line, 1, u), text |-> text]

\* the end (exclusive) of a match of ^[A-Z]+:\s* that starts at i, or 0
LabelEnd(s, i) ==
  LET u == RunLen(s, i, Upper)
  IN IF (i = 1 \/ s[i - 1] = NL) /\ u > 0 /\ i + u <= Len(s) /\ s[i + u] = ":"
     THEN i + u + 1 + RunLen(s, i + u + 1, Whitespace)
     ELSE 0

\* re.sub(r'^[A-Z]+:\s*', '', script, flags=re.MULTILINE): a left-to-right
\* scan; ^ looks at the character before the position in the original text
RECURSIVE StripLabelsFrom(_, _)
StripLabelsFrom(s, i) ==
  IF i > Len(s) THEN <<>>
  ELSE IF LabelEnd(s, i) > 0 THEN StripLabelsFrom(s, LabelEnd(s, i))
  ELSE <<s[i]>> \o StripLabelsFrom(s, i + 1)

StripLabels(s) == StripLabelsFrom(s, 1)

\* re.sub(r'\n+', ' ', text): each run of line feeds becomes one space
RECURSIVE CollapseFrom(_, _)
CollapseFrom(s, i) ==
  IF i > Len(s) THEN <<>>
  ELSE IF s[i] = NL THEN <<" ">> \o CollapseFrom(s, i + RunLen(s, i, {NL}))
  ELSE <<s[i]>> \o CollapseFrom(s, i + 1)

CollapseNewlines(s) == CollapseFrom(s, 1)

\* the text of the single track (lines 297-298)
CombinedText(s) == CollapseNewlines(StripLabels(s))

(***************************************************************************)
(* Python floats (IEEE 754 binary64) of non-negative values: a significand *)
(* of 53 bits, most significant first, and the exponent of its last bit.   *)
(* The value is m * 2^e; zero has the empty significand.                   *)
(***************************************************************************)
Zero == [m |-> <<>>, e |-> 0]

\* 2^z, for z below 31
Pow2(z) ==
  LET small == <<1, 2, 4, 8, 16, 32, 64, 128, 256, 512>>
  IN IF z < 10 THEN small[z + 1]
     ELSE IF z < 20 THEN 1024 * small[z - 9]
     ELSE IF z < 30 THEN 1048576 * small[z - 19]
     ELSE 1073741824

\* the number of binary digits of n >= 0
BitLen(n) == IF n = 0 THEN 0 ELSE CHOOSE l \in 1..31 : Pow2(l - 1) <= n /\ (l = 31 \/ n < Pow2(l))

\* the w low binary digits of n, most significant first
BitsWide(n, w) == [k \in 1..w |-> (n \div Pow2(w - k)) % 2]

\* the binary digits of n > 0, most significant first
BitsOf(n) == BitsWide(n, BitLen(n))

Zeros(k) == [x \in 1..k |-> 0]

\* the value of the binary digits bits[a..b]
RECURSIVE BitsValue(_, _, _)
BitsValue(bits, a, b) ==
  IF a > b THEN 0 ELSE 2 * BitsValue(bits, a, b - 1) + bits[b]

\* 2^k modulo n
RECURSIVE Pow2Mod(_, _)
Pow2Mod(k, n) ==
  IF k <= 20 THEN Pow2(k) % n
  ELSE (Pow2Mod(k - 20, n) * (Pow2(20) % n)) % n

\* the first k digits of the binary fraction r/n (r < n), and the remainder
\* they leave: digit j is the carry of doubling the remainder after j-1 digits
FracBits(r, n, k) ==
  [bits |-> [j \in 1..k |->
               IF 2 * ((r * Pow2Mod(j - 1, n)) % n) >= n THEN 1 ELSE 0],
   r    |-> (r * Pow2Mod(k, n)) % n]

\* bits + 1, one digit longer when every digit is 1
Inc(bits) ==
  LET zeros == {k \in 1..Len(bits) : bits[k] = 0}
      last  == CHOOSE k \in zeros : \A x \in zeros : x <= k
  IN IF zeros = {} THEN <<1>> \o Zeros(Len(bits))
     ELSE [k \in 1..Len(bits) |->
             IF k < last THEN bits[k] ELSE IF k = last THEN 1 ELSE 0]

\* the float of significand m (53 bits) and exponent e, rounded up or not
Rounded(m, up, e) ==
  IF ~up THEN [m |-> m, e |-> e]
  ELSE IF Len(Inc(m)) > Len(m)
  THEN [m |-> SubSeq(Inc(m), 1, Len(m)), e |-> e + 1]
  ELSE [m |-> Inc(m), e |-> e]

\* the least z with a * 2^z >= n, for a > 0
ShiftUp(a, n) == CHOOSE z \in 0..BitLen(n) : a * Pow2(z) >= n /\ (z = 0 \/ a * Pow2(z - 1) < n)

\* float(a) of an integer a >= 0 (exact below 2^53)
FloatOfInt(a) ==
  IF a = 0 THEN Zero
  ELSE [m |-> BitsOf(a) \o Zeros(53 - BitLen(a)), e |-> BitLen(a) - 53]

\* a / n of two integers, a >= 0 and n > 0: the quotient rounded to the
\* nearest float, ties to even
TrueDiv(a, n) ==
  IF a = 0 THEN Zero
  ELSE LET z  == ShiftUp(a, n)
           ib == BitsOf((a * Pow2(z)) \div n)
           fb == FracBits((a * Pow2(z)) % n, n, 53 - Len(ib))
           m  == ib \o fb.bits
           up == 2 * fb.r > n \/ (2 * fb.r = n /\ m[53] = 1)
       IN Rounded(m, up, Len(ib) - 53 - z)

\* the digits of m * n for a significand m of 53 bits, multiplied in four
\* limbs of at most 14 bits from the least significant one
MulBits(m, n) ==
  LET v1 == BitsValue(m, 40, 53) * n
      v2 == BitsValue(m, 26, 39) * n + v1 \div 16384
      v3 == BitsValue(m, 12, 25) * n + v2 \div 16384
      v4 == BitsValue(m, 1, 11) * n + v3 \div 16384
  IN BitsOf(v4) \o BitsWide(v3 % 16384, 14) \o BitsWide(v2 % 16384, 14)
       \o BitsWide(v1 % 16384, 14)

\* x * n of a float and an integer n > 0: the product rounded to the nearest
\* float, ties to even
FloatTimesInt(x, n) ==
  IF x = Zero THEN Zero
  ELSE LET p      == MulBits(x.m, n)
           top    == SubSeq(p, 1, 53)
           guard  == Len(p) > 53 /\ p[54] = 1
           sticky == \E k \in 55..Len(p) : p[k] = 1
           up     == guard /\ (sticky \/ top[53] = 1)
       IN Rounded(top, up, x.e + Len(p) - 53)

(***************************************************************************)
(* Posts, analyze_tweets_sentiment and the tweet summaries of the prompt.  *)
(***************************************************************************)
\* dict.get(key, default); a dict is a function on the keys it has
Get(d, key, default) == IF key \in DOMAIN d THEN d[key] ELSE default

Min(a, b) == IF a < b THEN a ELSE b
Max(a, b) == IF a > b THEN a ELSE b

RECURSIVE SumSeq(_)
SumSeq(xs) == IF Len(xs) = 0 THEN 0 ELSE Head(xs) + SumSeq(Tail(xs))

\* MetricOf with a missing metric counted as 1
MetricOfDefaultOne(tweets, name) ==
  [k \in 1..Len(tweets) |->
     Get(Get(tweets[k], "public_metrics", <<>>), name, 1)]

\* lines 137-139: one metric of every tweet, 0 where it is missing
MetricOf(tweets, name) ==
  [k \in 1..Len(tweets) |->
     Get(Get(tweets[k], "public_metrics", <<>>), name, 0)]

\* lines 131-150
analyze_tweets_sentiment(tweets) ==
  LET total_likes    == SumSeq(MetricOf(tweets, "like_count"))
      total_retweets == SumSeq(MetricOf(tweets, "retweet_count"))
      total_replies  == SumSeq(MetricOf(tweets, "reply_count"))
      tweet_lengths  == [k \in 1..Len(tweets) |-> Len(tweets[k].text)]
  IN [total_engagement |-> total_likes + total_retweets + total_replies,
      avg_likes    |-> IF Len(tweets) # 0
                       THEN TrueDiv(total_likes, Len(tweets)) ELSE Zero,
      avg_retweets |-> IF Len(tweets) # 0
                       THEN TrueDiv(total_retweets, Len(tweets)) ELSE Zero,
      tweet_lengths |-> tweet_lengths,
      avg_length   |-> IF Len(tweets) # 0
                       THEN TrueDiv(SumSeq(tweet_lengths), Len(tweets))
                       ELSE Zero]

\* the slice tweets[:5] of line 169 and the slice text[:100] of line 172
TopTweets == 5
TextLimit == 100

\* SummaryText with the marker added from 100 characters on
SummaryTextAtLimit(text) ==
  Slice(text, 1, Min(TextLimit, Len(text)))
    \o (IF Len(text) >= TextLimit THEN <<".", ".", ".">> ELSE <<>>)

\* line 172: text[:100] and the marker '...' when the text is longer
SummaryText(text) ==
  Slice(text, 1, Min(TextLimit, Len(text)))
    \o (IF Len(text) > TextLimit THEN <<".", ".", ".">> ELSE <<>>)

\* lines 168-175: one summary per tweet of tweets[:5], numbered from 1
tweet_summaries(tweets) ==
  [i \in 1..Min(TopTweets, Len(tweets)) |->
     [i        |-> i,
      text     |-> SummaryText(tweets[i].text),
      likes    |-> Get(Get(tweets[i], "public_metrics", <<>>), "like_count", 0),
      retweets |-> Get(Get(tweets[i], "public_metrics", <<>>), "retweet_count", 0),
      replies  |-> Get(Get(tweets[i], "public_metrics", <<>>), "reply_count", 0)]]

\* a text of the given length whose characters depend on their position
TextOf(len, period) == [k \in 1..len |-> IF k % period = 0 THEN "b" ELSE "a"]

\* the posts of a feed: with all, some and none of the metrics
TweetPool ==
  { [text |-> TextOf(3, 2),
     public_metrics |-> [like_count |-> 5, retweet_count |-> 1, reply_count |-> 2]],
    [text |-> TextOf(4, 3), public_metrics |-> [like_count |-> 4]],
    [text |-> TextOf(6, 5)] }

\* posts with a text below, at and above the limit of the prompt
LongTweetPool ==
  { [text |-> TextOf(7, 2), public_metrics |-> [like_count |-> 1]],
    [text |-> TextOf(100, 3), public_metrics |-> [retweet_count |-> 2]],
    [text |-> TextOf(101, 5)] }

(***************************************************************************)
(* Console input of main().                                                *)
(***************************************************************************)
Digits == <<"0", "1", "2", "3", "4", "5", "6", "7", "8", "9">>

DigitValue(ch) == (CHOOSE d \in 1..10 : Digits[d] = ch) - 1

IsDigit(ch) == \E d \in 1..10 : Digits[d] = ch

RECURSIVE DecimalValue(_)
DecimalValue(ds) ==
  IF Len(ds) = 0 THEN 0
  ELSE 10 * DecimalValue(SubSeq(ds, 1, Len(ds) - 1)) + DigitValue(ds[Len(ds)])

\* int(s) raises ValueError unless s is an optional sign and decimal digits
IsIntLiteral(s) ==
  LET t  == Strip(s)
      ds == IF Len(t) > 0 /\ t[1] \in {"-", "+"} THEN Tail(t) ELSE t
  IN Len(ds) > 0 /\ \A k \in 1..Len(ds) : IsDigit(ds[k])

IntOf(s) ==
  LET t == Strip(s)
  IN IF t[1] = "-" THEN 0 - DecimalValue(Tail(t))
     ELSE IF t[1] = "+" THEN DecimalValue(Tail(t))
     ELSE DecimalValue(t)

\* lines 404-408: int(input(...) or "10"), limited to 1..100; 10 when the
\* input is no number
AskedCount(typed) ==
  LET text == IF typed = <<>> THEN <<"1", "0">> ELSE typed
  IN IF IsIntLiteral(text) THEN Max(1, Min(IntOf(text), 100)) ELSE 10

(***************************************************************************)
(* text_to_speech_multispeaker: the render call.                           *)
(***************************************************************************)
\* the render calls the model runs (the second one only runs in SpecRender2)
Calls == {1, 2}

\* a string literal, as the characters of its name
HOST   == <<"H", "O", "S", "T">>
ALEX   == <<"A", "L", "E", "X">>
MAYA   == <<"M", "A", "Y", "A">>
JORDAN == <<"J", "O", "R", "D", "A", "N">>
SAM    == <<"S", "A", "M">>

\* voice_settings (lines 255-261)
voice_settings ==
  [sp \in {HOST, ALEX, MAYA, JORDAN, SAM} |->
     [lang |-> "en",
      tld  |-> CASE sp = HOST   -> "com"
                 [] sp = ALEX   -> "co.uk"
                 [] sp = MAYA   -> "com.au"
                 [] sp = JORDAN -> "ca"
                 [] sp = SAM    -> "com",
      slow |-> FALSE]]

\* f"temp_segment_{segment_count}.mp3" (line 290), a path relative to the
\* working directory
temp_file(segment_count) == <<"temp_segment", segment_count>>

\* the default output_file (line 237)
DefaultOutput == <<"twitter_critique_podcast", 0>>

\* the file system with a file written / removed
WriteFile(fs, name, content) ==
  [n \in DOMAIN fs \cup {name} |-> IF n = name THEN content ELSE fs[n]]

RemoveFile(fs, name) == [n \in DOMAIN fs \ {name} |-> fs[n]]

Idle ==
  [pc |-> "idle", script |-> <<>>, output_file |-> DefaultOutput,
   lines |-> <<>>, i |-> 1, segment_count |-> 0, temp_files |-> <<>>,
   j |-> 1, combined_text |-> <<>>, clips |-> <<>>, created |-> {},
   result |-> <<>>]

\* lines 266-276: what one pass of the loop does with a line: "skip", or the
\* gTTS arguments of the clip it synthesizes
LineClip(raw) ==
  LET line == Strip(raw)
      speaker_match == SpeakerMatch(line)
  IN IF line = <<>> THEN [synth |-> FALSE]
     ELSE IF ~speaker_match.matched THEN [synth |-> FALSE]
     ELSE IF speaker_match.speaker \in DOMAIN voice_settings
             /\ speaker_match.text # <<>>
     THEN [synth |-> TRUE, speaker |-> speaker_match.speaker,
           text |-> speaker_match.text,
           lang |-> voice_settings[speaker_match.speaker].lang,
           tld  |-> voice_settings[speaker_match.speaker].tld,
           slow |-> voice_settings[speaker_match.speaker].slow]
     ELSE [synth |-> FALSE]

\* lines 248-263: the call starts: the script is split, no clip exists yet
text_to_speech_multispeaker(c, script, output_file) ==
  /\ render[c].pc = "idle"
  /\ render' = [render EXCEPT ![c] =
       [Idle EXCEPT !.pc = "loop", !.script = script,
                    !.output_file = output_file, !.lines = Split(script)]]
  /\ UNCHANGED files

\* LoopSkip with the index advanced on a line that yields no clip
LoopSkipAdvancing(c) ==
  LET r == render[c] IN
  /\ r.pc = "loop"
  /\ r.i <= Len(r.lines)
  /\ ~LineClip(r.lines[r.i]).synth
  /\ render' = [render EXCEPT ![c].i = r.i + 1,
                              ![c].segment_count = r.segment_count + 1]
  /\ UNCHANGED files

\* lines 265-276: a pass of the loop over a line that yields no clip
LoopSkip(c) ==
  LET r == render[c] IN
  /\ r.pc = "loop"
  /\ r.i <= Len(r.lines)
  /\ ~LineClip(r.lines[r.i]).synth
  /\ render' = [render EXCEPT ![c].i = r.i + 1]
  /\ UNCHANGED files

\* lines 277-293: a pass of the loop that synthesizes and saves a clip
LoopSynth(c) ==
  LET r    == render[c]
      clip == LineClip(r.lines[r.i])
      name == temp_file(r.segment_count)
  IN
  /\ r.pc = "loop"
  /\ r.i <= Len(r.lines)
  /\ clip.synth
  /\ files' = WriteFile(files, name,
                [owner |-> c, text |-> clip.text, lang |-> clip.lang,
                 tld |-> clip.tld, slow |-> clip.slow])
  /\ render' = [render EXCEPT ![c] =
       [r EXCEPT !.i = r.i + 1,
                 !.temp_files = Append(r.temp_files, name),
                 !.segment_count = r.segment_count + 1,
                 !.created = r.created \cup {name},
                 !.clips = Append(r.clips,
                    [index |-> r.segment_count, speaker |-> clip.speaker,
                     text |-> clip.text, lang |-> clip.lang,
                     tld |-> clip.tld, slow |-> clip.slow])]]

\* lines 283-291 and 314-315: gTTS or tts.save raises on a clip; the handler
\* re-raises and the call ends
LoopSynthFail(c) ==
  LET r == render[c] IN
  /\ r.pc = "loop"
  /\ r.i <= Len(r.lines)
  /\ LineClip(r.lines[r.i]).synth
  /\ render' = [render EXCEPT ![c].pc = "raised"]
  /\ UNCHANGED files

\* lines 295-302: after the loop the whole script is synthesized as one track
\* with the default voice and saved to output_file
Combine(c) ==
  LET r == render[c]
      combined_text == CombinedText(r.script)
  IN
  /\ r.pc = "loop"
  /\ r.i > Len(r.lines)
  /\ files' = WriteFile(files, r.output_file,
                [owner |-> c, text |-> combined_text, lang |-> "en",
                 tld |-> "default", slow |-> FALSE])
  /\ render' = [render EXCEPT ![c] =
       [r EXCEPT !.pc = "cleanup", !.combined_text = combined_text, !.j = 1]]

\* lines 300-302 and 314-315: the synthesis of the single track raises
CombineFail(c) ==
  LET r == render[c] IN
  /\ r.pc = "loop"
  /\ r.i > Len(r.lines)
  /\ render' = [render EXCEPT ![c].pc = "raised"]
  /\ UNCHANGED files

\* lines 304-309: one os.remove of the clean-up loop; a missing file is an
\* OSError that is swallowed
CleanupStep(c) ==
  LET r == render[c] IN
  /\ r.pc = "cleanup"
  /\ r.j <= Len(r.temp_files)
  /\ files' = RemoveFile(files, r.temp_files[r.j])
  /\ render' = [render EXCEPT ![c].j = r.j + 1]

\* lines 311-312: the call returns the absolute path of the track
RenderReturn(c) ==
  LET r == render[c] IN
  /\ r.pc = "cleanup"
  /\ r.j > Len(r.temp_files)
  /\ render' = [render EXCEPT ![c].pc = "returned", ![c].result = r.output_file]
  /\ UNCHANGED files

RenderStep(c) ==
  \/ LoopSkip(c)
  \/ LoopSynth(c)
  \/ LoopSynthFail(c)
  \/ Combine(c)
  \/ CombineFail(c)
  \/ CleanupStep(c)
  \/ RenderReturn(c)

(***************************************************************************)
(* Transcripts: up to MaxLines lines of LinePool, joined by line feeds.    *)
(***************************************************************************)
LinePool ==
  { HOST \o <<":", " ", "a">>,                       \* HOST: a
    ALEX \o <<":", "b">>,                            \* ALEX:b
    <<" ">> \o SAM \o <<":", "c">>,                  \* an indented label
    MAYA \o <<":", " ", " ", "d", " ", "e", " ">>,   \* MAYA:  d e
    JORDAN \o <<":">>,                               \* a label and no text
    <<"N", "O", "T", "E", ":", " ", "g">>,           \* an unknown label
    <<>>,                                            \* a blank line
    <<"h", "i">> }                                   \* an unlabeled line

RECURSIVE Join(_)
Join(ls) ==
  IF Len(ls) = 0 THEN <<>>
  ELSE IF Len(ls) = 1 THEN ls[1]
  ELSE ls[1] \o <<NL>> \o Join(Tail(ls))

SeqsUpTo(S, n) == UNION {[1..k -> S] : k \in 0..n}

Scripts == {Join(ls) : ls \in SeqsUpTo(LinePool, MaxLines)}

(***************************************************************************)
(* generate_critique_podcast: the orchestrator.                            *)
(***************************************************************************)
\* isinstance(raised, cls)
IsInstance(raised, cls) == cls = "Exception" \/ raised = cls

\* lines 79-80 and 128-129: a requests.RequestException is re-raised as a
\* plain Exception; anything else passes through
Reraised(raised) ==
  IF IsInstance(raised, "RequestException") THEN "Exception" ELSE raised

\* Caught with a handler for requests.RequestException alone
CaughtRequestsOnly(raised) == IsInstance(raised, "RequestException")

\* line 373: except Exception
Caught(raised) == IsInstance(raised, "Exception")

\* lines 355-356 and 365: the names of the sidecar and of the audio file, made
\* of the user name and the time of the run
script_file(timestamp) == <<"twitter_critique_txt", timestamp>>
audio_file(timestamp) == <<"twitter_critique_mp3", timestamp>>
Timestamps == {1}

Called(call, arg) == Append(log, [call |-> call, arg |-> arg])

OrchIdle ==
  [pc |-> "idle", username |-> <<>>, tweet_count |-> 0, play_audio |-> FALSE,
   fetched |-> FALSE, tweets |-> <<>>, generated |-> FALSE, script |-> <<>>,
   timestamp |-> 0, audio_path |-> <<>>, result |-> <<>>, failed |-> "none",
   played |-> FALSE]

GenIdle == [done |-> FALSE, analysis |-> <<>>, tweet_summaries |-> <<>>]

\* Fail with the failure swallowed and the pipeline going on to render
FailContinue(stage, raised) ==
  orch' = [orch EXCEPT !.pc = "render", !.failed = stage]

\* lines 373-375: a stage raised; the handler prints and returns ""
Fail(stage, raised) ==
  orch' = [orch EXCEPT !.pc = IF Caught(raised) THEN "returned" ELSE "propagated",
                       !.failed = stage, !.result = <<>>]

\* lines 332-346: the call
generate_critique_podcast(username, tweet_count, play_audio) ==
  /\ orch.pc = "idle"
  /\ orch' = [OrchIdle EXCEPT !.pc = "lookup", !.username = username,
                              !.tweet_count = tweet_count,
                              !.play_audio = play_audio]

\* lines 57-75 and 95-96: the user lookup answers with the user
LookupUser ==
  /\ orch.pc = "lookup"
  /\ log' = Called("GET users/by/username", 0)
  /\ orch' = [orch EXCEPT !.pc = "tweets"]
  /\ UNCHANGED <<env, main, gen, files, render>>

\* lines 70-80: the lookup fails (a RequestException, re-raised) or the user
\* is not found (an Exception)
LookupUserFail ==
  /\ orch.pc = "lookup"
  /\ log' = Called("GET users/by/username", 0)
  /\ \E raised \in {"RequestException", "Exception"} :
       Fail("lookup", Reraised(raised))
  /\ UNCHANGED <<env, main, gen, files, render>>

\* line 102: the count sent as max_results
max_results(tweet_count) == Min(tweet_count, 100)

\* the longest feed the provider answers with in a run of the whole program
MaxFeed == 2

\* the feeds the provider answers with: at least one post
Feeds == UNION {[1..k -> TweetPool] : k \in 1..MaxFeed}

\* lines 98-126: the posts are listed
ListTweets ==
  /\ orch.pc = "tweets"
  /\ log' = Called("GET users/:id/tweets", max_results(orch.tweet_count))
  /\ \E data \in Feeds :
       orch' = [orch EXCEPT !.pc = "generate", !.fetched = TRUE, !.tweets = data]
  /\ UNCHANGED <<env, main, gen, files, render>>

\* lines 96, 107-113 and 128-129: the user record has no id (KeyError), the
\* request fails (RequestException, re-raised) or the answer has no posts
ListTweetsFail ==
  /\ orch.pc = "tweets"
  /\ \E raised \in {"KeyError", "RequestException", "Exception"} :
       /\ log' = IF raised = "KeyError" THEN log
                 ELSE Called("GET users/:id/tweets", max_results(orch.tweet_count))
       /\ Fail("fetch", Reraised(raised))
  /\ UNCHANGED <<env, main, gen, files, render>>

\* the transcripts the narrative generator answers with
Narratives ==
  { Join(<<HOST \o <<":", " ", "a">>, <<>>, ALEX \o <<":", "b">>>>),
    <<" ">> \o SAM \o <<":", "c">>,
    <<"h", "i">> }

\* lines 152-232: the analysis, the prompt, and the answer of the generator
GenerateScript ==
  /\ orch.pc = "generate"
  /\ gen' = [done |-> TRUE,
             analysis |-> analyze_tweets_sentiment(orch.tweets),
             tweet_summaries |-> tweet_summaries(orch.tweets)]
  /\ log' = Called("chat.completions.create", 0)
  /\ \E s \in Narratives :
       orch' = [orch EXCEPT !.pc = "save", !.generated = TRUE, !.script = s]
  /\ UNCHANGED <<env, main, files, render>>

\* lines 219-235: the generator fails; the error is re-raised as an Exception
GenerateScriptFail ==
  /\ orch.pc = "generate"
  /\ gen' = [done |-> TRUE,
             analysis |-> analyze_tweets_sentiment(orch.tweets),
             tweet_summaries |-> tweet_summaries(orch.tweets)]
  /\ log' = Called("chat.completions.create", 0)
  /\ Fail("generate", "Exception")
  /\ UNCHANGED <<env, main, files, render>>

\* lines 354-362: the sidecar is written: the header and the script
SaveScript ==
  /\ orch.pc = "save"
  /\ \E ts \in Timestamps :
       /\ files' = WriteFile(files, script_file(ts),
                     [owner |-> 0, header |-> orch.username,
                      text |-> orch.script, complete |-> TRUE])
       /\ orch' = [orch EXCEPT !.pc = "render", !.timestamp = ts]
  /\ log' = Called("open", 0)
  /\ UNCHANGED <<env, main, gen, render>>

\* lines 357-361: open or write raises an OSError; the file may be there, cut
SaveScriptFail ==
  /\ orch.pc = "save"
  /\ \E ts \in Timestamps, opened \in BOOLEAN :
       files' = IF opened
                THEN WriteFile(files, script_file(ts),
                       [owner |-> 0, header |-> orch.username,
                        text |-> <<>>, complete |-> FALSE])
                ELSE files
  /\ log' = Called("open", 0)
  /\ Fail("sidecar", "OSError")
  /\ UNCHANGED <<env, main, gen, render>>

\* lines 364-366: the render call starts
StartRender ==
  /\ orch.pc = "render"
  /\ text_to_speech_multispeaker(1, orch.script, audio_file(orch.timestamp))
  /\ orch' = [orch EXCEPT !.pc = "rendering"]
  /\ log' = Called("text_to_speech_multispeaker", 0)
  /\ UNCHANGED <<env, main, gen>>

\* the render call runs
Rendering ==
  /\ orch.pc = "rendering"
  /\ RenderStep(1)
  /\ UNCHANGED pipeVars

\* lines 366-371: the render call returned the path
RenderReturned ==
  /\ orch.pc = "rendering"
  /\ render[1].pc = "returned"
  /\ orch' = [orch EXCEPT
       !.audio_path = render[1].result,
       !.pc = IF orch.play_audio THEN "play" ELSE "returned",
       !.result = IF orch.play_audio THEN <<>> ELSE render[1].result]
  /\ UNCHANGED <<env, main, gen, log, files, render>>

\* lines 314-315 and 373-375: the render call raised
RenderRaised ==
  /\ orch.pc = "rendering"
  /\ render[1].pc = "raised"
  /\ Fail("render", "Exception")
  /\ UNCHANGED <<env, main, gen, log, files, render>>

\* lines 317-330 and 368-371: play_audio plays, or prints its own error; the
\* path is returned either way
PlayAudio ==
  /\ orch.pc = "play"
  /\ \E ok \in BOOLEAN :
       orch' = [orch EXCEPT !.pc = "returned", !.played = ok,
                            !.result = orch.audio_path]
  /\ log' = Called("pygame.mixer", 0)
  /\ UNCHANGED <<env, main, gen, files, render>>

OrchStep ==
  \/ LookupUser
  \/ LookupUserFail
  \/ ListTweets
  \/ ListTweetsFail
  \/ GenerateScript
  \/ GenerateScriptFail
  \/ SaveScript
  \/ SaveScriptFail
  \/ StartRender
  \/ Rendering
  \/ RenderReturned
  \/ RenderRaised
  \/ PlayAudio

(***************************************************************************)
(* main().                                                                 *)
(***************************************************************************)
\* os.getenv of a variable that is not set
NoneValue == "<None>"

\* not value
Falsy(value) == value \in {NoneValue, ""}

MainStart == [pc |-> "start", username |-> <<>>, tweet_count |-> 0]

\* lines 384-390: no OpenAI key
MainNoOpenAIKey ==
  /\ main.pc = "start"
  /\ Falsy(env.OPENAI_API_KEY)
  /\ main' = [main EXCEPT !.pc = "exit"]
  /\ UNCHANGED <<env, orch, gen, log, files, render>>

\* lines 392-396: no Twitter token
MainNoTwitterToken ==
  /\ main.pc = "start"
  /\ ~Falsy(env.OPENAI_API_KEY)
  /\ Falsy(env.TWITTER_BEARER_TOKEN)
  /\ main' = [main EXCEPT !.pc = "exit"]
  /\ UNCHANGED <<env, orch, gen, log, files, render>>

\* what is typed at the two prompts
TypedNames == { <<>>, <<" ">>, <<"b", "o", "b">> }
TypedCounts ==
  { <<>>, <<"x">>, <<"0">>, <<"-", "3">>, <<"7">>, <<"1", "0", "0">>,
    <<"1", "0", "1">> }

\* MainAskUsername without the test of the Twitter token
MainAskUsernameUnchecked ==
  /\ main.pc = "start"
  /\ ~Falsy(env.OPENAI_API_KEY)
  /\ \E typed \in TypedNames :
       main' = [main EXCEPT !.username = Strip(typed),
                            !.pc = IF Strip(typed) = <<>> THEN "exit" ELSE "count"]
  /\ log' = Called("input", 0)
  /\ UNCHANGED <<env, orch, gen, files, render>>

\* lines 399-402: the user name is asked; an empty one ends the program
MainAskUsername ==
  /\ main.pc = "start"
  /\ ~Falsy(env.OPENAI_API_KEY)
  /\ ~Falsy(env.TWITTER_BEARER_TOKEN)
  /\ \E typed \in TypedNames :
       main' = [main EXCEPT !.username = Strip(typed),
                            !.pc = IF Strip(typed) = <<>> THEN "exit" ELSE "count"]
  /\ log' = Called("input", 0)
  /\ UNCHANGED <<env, orch, gen, files, render>>

\* lines 404-408: the count is asked
MainAskCount ==
  /\ main.pc = "count"
  /\ \E typed \in TypedCounts :
       main' = [main EXCEPT !.tweet_count = AskedCount(typed), !.pc = "call"]
  /\ log' = Called("input", 0)
  /\ UNCHANGED <<env, orch, gen, files, render>>

\* lines 410-412: the generator is made and called
MainCall ==
  /\ main.pc = "call"
  /\ generate_critique_podcast(main.username, main.tweet_count, TRUE)
  /\ main' = [main EXCEPT !.pc = "wait"]
  /\ UNCHANGED <<env, gen, log, files, render>>

\* lines 414-419: the outcome is printed
MainEnd ==
  /\ main.pc = "wait"
  /\ orch.pc = "returned"
  /\ main' = [main EXCEPT !.pc = "exit"]
  /\ UNCHANGED <<env, orch, gen, log, files, render>>

\* the counts a caller of the class hands to generate_critique_podcast
ApiCounts == {-3, 0, 1, 10, 100, 101}

\* the class used as a library: generate_critique_podcast called directly
ApiCall ==
  /\ main.pc = "start"
  /\ \E tweet_count \in ApiCounts, play_audio \in BOOLEAN :
       generate_critique_podcast(<<"b", "o", "b">>, tweet_count, play_audio)
  /\ main' = [main EXCEPT !.pc = "library"]
  /\ UNCHANGED <<env, gen, log, files, render>>

MainStep ==
  \/ MainNoOpenAIKey
  \/ MainNoTwitterToken
  \/ MainAskUsername
  \/ MainAskCount
  \/ MainCall
  \/ MainEnd
  \/ ApiCall

(***************************************************************************)
(* Spec: the program, from main() or from a direct call of the class.      *)
(***************************************************************************)
Init ==
  /\ env \in [{"OPENAI_API_KEY", "TWITTER_BEARER_TOKEN"} -> {NoneValue, "", "secret"}]
  /\ main = MainStart
  /\ orch = OrchIdle
  /\ gen = GenIdle
  /\ log = <<>>
  /\ files = <<>>
  /\ render = [c \in Calls |-> Idle]

Next ==
  \/ MainStep
  \/ OrchStep

Spec == Init /\ [][Next]_vars

(***************************************************************************)
(* SpecRender: one render call on any transcript of Scripts.               *)
(***************************************************************************)
InitLibrary ==
  /\ env = [k \in {"OPENAI_API_KEY", "TWITTER_BEARER_TOKEN"} |-> "secret"]
  /\ main = [MainStart EXCEPT !.pc = "library"]
  /\ orch = OrchIdle
  /\ gen = GenIdle
  /\ log = <<>>
  /\ files = <<>>
  /\ render = [c \in Calls |-> Idle]

CallRender ==
  /\ \E s \in Scripts : text_to_speech_multispeaker(1, s, DefaultOutput)
  /\ UNCHANGED pipeVars

RenderStep1 == RenderStep(1) /\ UNCHANGED pipeVars

NextRender ==
  \/ CallRender
  \/ RenderStep1

SpecRender == InitLibrary /\ [][NextRender]_vars

(***************************************************************************)
(* SpecRender2: two render calls, interleaved, in one working directory.   *)
(***************************************************************************)
\* the longest transcript, in lines, of the two concurrent calls
MaxLines2 == 2

LinePool2 == { HOST \o <<":", " ", "a">>, <<"h", "i">> }

Scripts2 == {Join(ls) : ls \in SeqsUpTo(LinePool2, MaxLines2)}

CallRender2 ==
  /\ \E c \in Calls, s \in Scripts2 : text_to_speech_multispeaker(c, s, DefaultOutput)
  /\ UNCHANGED pipeVars

RenderStep2 == (\E c \in Calls : RenderStep(c)) /\ UNCHANGED pipeVars

NextRender2 ==
  \/ CallRender2
  \/ RenderStep2

SpecRender2 == InitLibrary /\ [][NextRender2]_vars

(***************************************************************************)
(* SpecStats: generate_podcast_script on any feed of up to MaxPosts posts. *)
(***************************************************************************)
\* the longest feed handed to generate_podcast_script
MaxPosts == 7

InitStats ==
  /\ env = [k \in {"OPENAI_API_KEY", "TWITTER_BEARER_TOKEN"} |-> "secret"]
  /\ main = [MainStart EXCEPT !.pc = "library"]
  /\ \E tweets \in SeqsUpTo(TweetPool, MaxPosts) :
       orch = [OrchIdle EXCEPT !.pc = "generate", !.fetched = TRUE,
                               !.tweets = tweets]
  /\ gen = GenIdle
  /\ log = <<>>
  /\ files = <<>>
  /\ render = [c \in Calls |-> Idle]

NextStats ==
  \/ GenerateScript
  \/ GenerateScriptFail

SpecStats == InitStats /\ [][NextStats]_vars

(***************************************************************************)
(* SpecPrompt: generate_podcast_script on feeds of long posts.             *)
(***************************************************************************)
\* the longest feed of long posts handed to generate_podcast_script
MaxLongPosts == 6

InitPrompt ==
  /\ env = [k \in {"OPENAI_API_KEY", "TWITTER_BEARER_TOKEN"} |-> "secret"]
  /\ main = [MainStart EXCEPT !.pc = "library"]
  /\ \E tweets \in SeqsUpTo(LongTweetPool, MaxLongPosts) :
       orch = [OrchIdle EXCEPT !.pc = "generate", !.fetched = TRUE,
                               !.tweets = tweets]
  /\ gen = GenIdle
  /\ log = <<>>
  /\ files = <<>>
  /\ render = [c \in Calls |-> Idle]

SpecPrompt == InitPrompt /\ [][NextStats]_vars

(***************************************************************************)
(* What the claims say, stated without the operators of the render call.   *)
(***************************************************************************)
Ended(c) == render[c].pc \in {"returned", "raised"}

IsTransient(name) == name[1] = "temp_segment"

SetMin(S) == CHOOSE x \in S : \A y \in S : x <= y
SetMax(S) == CHOOSE x \in S : \A y \in S : x >= y

NonBlank(s) == {k \in 1..Len(s) : s[k] \notin Whitespace}

\* s without its leading and trailing whitespace
Trimmed(s) ==
  IF NonBlank(s) = {} THEN <<>>
  ELSE SubSeq(s, SetMin(NonBlank(s)), SetMax(NonBlank(s)))

\* the lengths u such that t starts with u capitals and a colon (at most one)
LabelLens(t) ==
  {u \in 1..(Len(t) - 1) : (\A k \in 1..u : t[k] \in Upper) /\ t[u + 1] = ":"}

\* a trimmed line is a labeled utterance: a label, a colon, optional
\* whitespace and at least one more character
IsUtterance(t) ==
  /\ LabelLens(t) # {}
  /\ Len(t) >= SetMin(LabelLens(t)) + 2

UtteranceLabel(t) == SubSeq(t, 1, SetMin(LabelLens(t)))

\* the text after the label, the colon and the whitespace
UtteranceText(t) == Trimmed(SubSeq(t, SetMin(LabelLens(t)) + 2, Len(t)))

KnownSpeakers == {HOST, ALEX, MAYA, JORDAN, SAM}

\* the line yields a clip: labeled, and the label is a known speaker
YieldsClip(raw) ==
  /\ Trimmed(raw) # <<>>
  /\ IsUtterance(Trimmed(raw))
  /\ UtteranceLabel(Trimmed(raw)) \in KnownSpeakers

\* the clips of the lines ls, the first of them with index n
RECURSIVE ExpectedClips(_, _)
ExpectedClips(ls, n) ==
  IF Len(ls) = 0 THEN <<>>
  ELSE IF YieldsClip(Head(ls))
  THEN LET t == Trimmed(Head(ls))
           v == voice_settings[UtteranceLabel(t)]
       IN <<[index |-> n, speaker |-> UtteranceLabel(t),
             text |-> UtteranceText(t), lang |-> v.lang, tld |-> v.tld,
             slow |-> v.slow]>> \o ExpectedClips(Tail(ls), n + 1)
  ELSE ExpectedClips(Tail(ls), n)

\* a line with the label prefix removed when its trimmed form is a labeled
\* utterance; the whitespace around it is kept
WithoutLabel(raw) ==
  IF Trimmed(raw) # <<>> /\ IsUtterance(Trimmed(raw))
  THEN LET a == SetMin(NonBlank(raw))
           b == SetMax(NonBlank(raw))
       IN Slice(raw, 1, a - 1) \o UtteranceText(Trimmed(raw))
            \o Slice(raw, b + 1, Len(raw))
  ELSE raw

\* the transcript with every recognized label prefix removed and the line
\* breaks collapsed to single spaces
ExpectedFallback(script) ==
  LET ls == Split(script)
  IN CollapseNewlines(Join([k \in 1..Len(ls) |-> WithoutLabel(ls[k])]))

(***************************************************************************)
(* The claims.                                                             *)
(***************************************************************************)
\* C1: when a render call has ended, by returning or by raising, none of the
\* transient files temp_segment_<n>.mp3 it created exists.
C1_NoTransientLeft ==
  \A c \in Calls :
    Ended(c) => \A n \in render[c].created : n \notin DOMAIN files

\* C5: a step of one render call never writes, overwrites or deletes a
\* transient file that belongs to the other call.
C5_TransientIsolation ==
  [][\A c \in Calls :
       render'[c] # render[c] =>
         \A n \in DOMAIN files :
           (IsTransient(n) /\ files[n].owner # c) =>
             (n \in DOMAIN files' /\ files'[n] = files[n])]_vars

C7_FallbackText ==
  \A c \in Calls :
    LET r == render[c] IN
    r.pc \in {"cleanup", "returned"} =>
      /\ r.combined_text = ExpectedFallback(r.script)
      /\ files[r.output_file].text = ExpectedFallback(r.script)
      /\ files[r.output_file].lang = "en"
      /\ files[r.output_file].slow = FALSE

(***************************************************************************)
(* The claims about the orchestrator and main().                           *)
(***************************************************************************)
CallsOf(call) == {k \in 1..Len(log) : log[k].call = call}

\* the place of an external interaction in the pipeline
StageRank(call) ==
  CASE call = "input" -> 0
    [] call = "GET users/by/username" -> 1
    [] call = "GET users/:id/tweets" -> 2
    [] call = "chat.completions.create" -> 3
    [] call = "open" -> 4
    [] call = "text_to_speech_multispeaker" -> 5
    [] call = "pygame.mixer" -> 6

FailedRank ==
  CASE orch.failed = "lookup" -> 1
    [] orch.failed = "fetch" -> 2
    [] orch.failed = "generate" -> 3
    [] orch.failed = "sidecar" -> 4
    [] orch.failed = "render" -> 5

SidecarComplete ==
  /\ script_file(orch.timestamp) \in DOMAIN files
  /\ files[script_file(orch.timestamp)].complete
  /\ files[script_file(orch.timestamp)].text = orch.script

\* C2: the stages run in order, each after the one before it has returned
\* its result: generation after the feed fetch, the complete sidecar after
\* generation and before rendering, rendering after the sidecar; and no
\* stage starts after a stage has failed.
C2_StageOrder ==
  /\ \A k \in 1..Len(log) : \A j \in 1..(k - 1) :
       StageRank(log[j].call) <= StageRank(log[k].call)
  /\ \A g \in CallsOf("chat.completions.create") :
       /\ \E f \in CallsOf("GET users/:id/tweets") : f < g
       /\ \E u \in CallsOf("GET users/by/username") : u < g
       /\ orch.fetched /\ Len(orch.tweets) > 0
  /\ \A o \in CallsOf("open") :
       (\E g \in CallsOf("chat.completions.create") : g < o) /\ orch.generated
  /\ \A r \in CallsOf("text_to_speech_multispeaker") :
       (\E o \in CallsOf("open") : o < r) /\ SidecarComplete
  /\ render[1].pc # "idle" =>
       /\ CallsOf("text_to_speech_multispeaker") # {}
       /\ SidecarComplete
       /\ render[1].script = orch.script
  /\ orch.failed # "none" =>
       /\ orch.pc \in {"returned", "propagated"}
       /\ \A k \in 1..Len(log) : StageRank(log[k].call) <= FailedRank
       /\ FailedRank < 5 => render[1].pc = "idle"
       /\ FailedRank < 4 => script_file(orch.timestamp) \notin DOMAIN files
       /\ FailedRank < 3 => ~gen.done

\* C2 witness: a run in which every stage ran, to the returned audio path
C2_Witness ==
  /\ orch.pc = "returned"
  /\ orch.result # <<>>
  /\ Len(log) >= 5

\* C3: no failure of a stage leaves the orchestrator as an exception: it
\* returns the empty string; it returns a path only when every stage up to
\* rendering succeeded; and when generation succeeded and synthesis failed
\* the sidecar of the run is still there.
C3_FailureReporting ==
  /\ orch.pc # "propagated"
  /\ orch.failed # "none" => orch.pc = "returned" /\ orch.result = <<>>
  /\ (orch.pc = "returned" /\ orch.result # <<>>) =>
       /\ orch.failed = "none"
       /\ orch.fetched /\ orch.generated /\ SidecarComplete
       /\ render[1].pc = "returned"
       /\ orch.result = render[1].result
       /\ orch.result \in DOMAIN files
  /\ (orch.pc = "returned" /\ orch.generated /\ render[1].pc = "raised") =>
       /\ orch.failed = "render"
       /\ SidecarComplete

\* C3 witness: generation succeeded, synthesis failed, the call returned
C3_Witness ==
  /\ orch.pc = "returned"
  /\ orch.failed = "render"
  /\ orch.generated
  /\ render[1].pc = "raised"

\* C4: the count sent to the provider as max_results lies in 1..100.
C4_CountClamped ==
  \A k \in CallsOf("GET users/:id/tweets") : log[k].arg \in 1..100

\* C10: when main() finds a credential absent or empty, nothing of the
\* pipeline runs: no prompt, no request, no generation, no synthesis, no file.
C10_ConfigGate ==
  (main.pc # "library"
     /\ (Falsy(env.OPENAI_API_KEY) \/ Falsy(env.TWITTER_BEARER_TOKEN))) =>
    /\ main.pc \in {"start", "exit"}
    /\ log = <<>>
    /\ orch.pc = "idle"
    /\ ~gen.done
    /\ files = <<>>
    /\ \A c \in Calls : render[c].pc = "idle"

\* C10 witness: main() has ended for want of the Twitter token alone
C10_Witness ==
  /\ main.pc = "exit"
  /\ ~Falsy(env.OPENAI_API_KEY)
  /\ Falsy(env.TWITTER_BEARER_TOKEN)

(***************************************************************************)
(* The claims about the analysis and the prompt.                           *)
(***************************************************************************)
\* the sum of one metric over the posts, a missing one counted as 0
RECURSIVE Total(_, _)
Total(tweets, name) ==
  IF Len(tweets) = 0 THEN 0
  ELSE Total(SubSeq(tweets, 1, Len(tweets) - 1), name)
       + (LET t == tweets[Len(tweets)]
          IN IF "public_metrics" \in DOMAIN t /\ name \in DOMAIN t.public_metrics
             THEN t.public_metrics[name] ELSE 0)

RECURSIVE TotalLength(_)
TotalLength(tweets) ==
  IF Len(tweets) = 0 THEN 0
  ELSE Len(tweets[1].text) + TotalLength(Tail(tweets))

\* the floats next to x > 0
NextUp(x) == Rounded(x.m, TRUE, x.e)

NextDown(x) ==
  LET ones == {k \in 1..Len(x.m) : x.m[k] = 1}
      last == CHOOSE k \in ones : \A y \in ones : y <= k
  IN IF last = 1 THEN [m |-> [k \in 1..Len(x.m) |-> 1], e |-> x.e - 1]
     ELSE [m |-> [k \in 1..Len(x.m) |->
                    IF k < last THEN x.m[k] ELSE IF k = last THEN 0 ELSE 1],
           e |-> x.e]

\* x is the float of the integer a, or one of the two floats next to it
WithinOneUlp(x, a) ==
  IF a = 0 THEN x = Zero
  ELSE x \in {FloatOfInt(a), NextUp(FloatOfInt(a)), NextDown(FloatOfInt(a))}

StatsExact(tweets, a) ==
  /\ a.total_engagement = Total(tweets, "like_count")
       + Total(tweets, "retweet_count") + Total(tweets, "reply_count")
  /\ Len(a.tweet_lengths) = Len(tweets)
  /\ \A k \in 1..Len(tweets) : a.tweet_lengths[k] = Len(tweets[k].text)
  /\ Len(tweets) = 0 =>
       a.avg_likes = Zero /\ a.avg_retweets = Zero /\ a.avg_length = Zero

\* C8 as claimed: the totals, the lengths, and avg * n equal to the sum
C8_AveragesExact ==
  gen.done =>
    LET n == Len(orch.tweets) IN
    /\ StatsExact(orch.tweets, gen.analysis)
    /\ n > 0 =>
         /\ FloatTimesInt(gen.analysis.avg_likes, n)
              = FloatOfInt(Total(orch.tweets, "like_count"))
         /\ FloatTimesInt(gen.analysis.avg_retweets, n)
              = FloatOfInt(Total(orch.tweets, "retweet_count"))
         /\ FloatTimesInt(gen.analysis.avg_length, n)
              = FloatOfInt(TotalLength(orch.tweets))

\* C8, amended: total_engagement is the sum of the three metrics with a
\* missing one counted as 0, tweet_lengths lists the lengths in input order,
\* the averages are 0 for no posts, and avg * n is the sum up to one unit in
\* the last place of the float.
C8_AveragesWithinRounding ==
  gen.done =>
    LET n == Len(orch.tweets) IN
    /\ StatsExact(orch.tweets, gen.analysis)
    /\ n > 0 =>
         /\ WithinOneUlp(FloatTimesInt(gen.analysis.avg_likes, n),
                         Total(orch.tweets, "like_count"))
         /\ WithinOneUlp(FloatTimesInt(gen.analysis.avg_retweets, n),
                         Total(orch.tweets, "retweet_count"))
         /\ WithinOneUlp(FloatTimesInt(gen.analysis.avg_length, n),
                         TotalLength(orch.tweets))

\* C8 witness: the analysis of a feed with a missing metric whose average of
\* likes, times n, is not the sum
C8_Witness ==
  /\ gen.done
  /\ \E k \in 1..Len(orch.tweets) : "public_metrics" \notin DOMAIN orch.tweets[k]
  /\ FloatTimesInt(gen.analysis.avg_likes, Len(orch.tweets))
       # FloatOfInt(Total(orch.tweets, "like_count"))

\* C9: the prompt holds the first min(5, n) posts in arrival order; a text
\* longer than 100 characters appears as its first 100 characters and '...',
\* a text of 100 characters or fewer appears as it is.
C9_PromptPosts ==
  gen.done =>
    LET tweets == orch.tweets
        sums   == gen.tweet_summaries
    IN
    /\ Len(sums) = (IF Len(tweets) < 5 THEN Len(tweets) ELSE 5)
    /\ \A k \in 1..Len(sums) :
         LET t == tweets[k].text
             x == sums[k].text
         IN /\ sums[k].i = k
            /\ Len(t) <= 100 => x = t
            /\ Len(t) > 100 =>
                 /\ Len(x) = 103
                 /\ \A j \in 1..100 : x[j] = t[j]
                 /\ \A j \in 101..103 : x[j] = "."

\* C9 witness: a prompt of a feed of more than five posts, with a text of
\* 100 characters and a longer one among the five
C9_Witness ==
  /\ gen.done
  /\ Len(orch.tweets) > 5
  /\ Len(gen.tweet_summaries) = 5
  /\ \E k \in 1..5 : Len(orch.tweets[k].text) = 100
  /\ \E k \in 1..5 : Len(orch.tweets[k].text) > 100

====
